---- MODULE Spec2Model ----
(***************************************************************************)
(* Model of the script-section parser of video-forge                       *)
(* (backend/app/apis/script_generator/__init__.py): parse_script_sections  *)
(* and fallback_parse_script.                                              *)
(*                                                                         *)
(* A Python string is a sequence of atoms.  An atom is one punctuation     *)
(* character ("#", " ", "-", "[", "]", "_", ":", "\n"), one digit, or one  *)
(* whole word.  The string methods the parser uses (split, strip, upper,   *)
(* lower, startswith, endswith, join, re.search) are computed on these     *)
(* sequences.  None and the empty string / empty list are both falsy in    *)
(* every test the parser makes, so both are the empty sequence here.       *)
(*                                                                         *)
(* The module also holds the job and script storage of the same file       *)
(* (generate_script, update_script_generation_status, the background task  *)
(* generate_script_with_openai, update_script) run by two server processes *)
(* on one storage, with and without storage failures, and the voice-over   *)
(* requests.  TwinSpec parses a script a second time with one blank line   *)
(* added, to compare the two results.                                      *)
(***************************************************************************)
EXTENDS Naturals, Sequences, FiniteSets, TLC

(* ------------------------------------------------------------------ *)
(* Bounds                                                             *)
(* ------------------------------------------------------------------ *)

\* longest script, in lines, of the exhaustive input family
MaxLines == 4

(* ------------------------------------------------------------------ *)
(* Strings                                                            *)
(* ------------------------------------------------------------------ *)

NL == "\n"

\* characters str.strip() removes
Whitespace == {" ", NL}

\* (lower, capitalised, upper) spellings of the words that have case
Words ==
    { <<"hook", "Hook", "HOOK">>, <<"intro", "Intro", "INTRO">>,
      <<"introduction", "Introduction", "INTRODUCTION">>,
      <<"main", "Main", "MAIN">>, <<"content", "Content", "CONTENT">>,
      <<"segment", "Segment", "SEGMENT">>, <<"outro", "Outro", "OUTRO">>,
      <<"conclusion", "Conclusion", "CONCLUSION">>, <<"cta", "Cta", "CTA">>,
      <<"duration", "Duration", "DURATION">>, <<"b", "B", "B">>,
      <<"roll", "Roll", "ROLL">>, <<"custom", "Custom", "CUSTOM">>,
      <<"hi", "Hi", "HI">>, <<"welcome", "Welcome", "WELCOME">>,
      <<"shot", "Shot", "SHOT">>, <<"s", "S", "S">>,
      <<"domain", "Domain", "DOMAIN">> }

\* every word spelling mapped to its (lower, capitalised, upper) triple
SpellingsOf ==
    [ a \in UNION { {w[1], w[2], w[3]} : w \in Words } |->
        CHOOSE w \in Words : a \in {w[1], w[2], w[3]} ]

\* characters without case are left as they are
UpperAtom(a) == IF a \in DOMAIN SpellingsOf THEN SpellingsOf[a][3] ELSE a
LowerAtom(a) == IF a \in DOMAIN SpellingsOf THEN SpellingsOf[a][1] ELSE a

\* the one element of a singleton set; an operator written as
\* Once({e(t) : t \in {s}}) computes its argument s a single time
Once(S) == CHOOSE r \in S : TRUE

\* str.upper()
Upper(s) == Once({[k \in 1..Len(t) |-> UpperAtom(t[k])] : t \in {s}})

\* str.lower()
Lower(s) == Once({[k \in 1..Len(t) |-> LowerAtom(t[k])] : t \in {s}})

SetMin(S) == CHOOSE x \in S : \A y \in S : x <= y
SetMax(S) == CHOOSE x \in S : \A y \in S : y <= x

\* str.strip(chars): drop the leading and trailing atoms that are in chars
StripChars(s, chars) ==
    Once({ Once({ IF keep = {} THEN <<>> ELSE SubSeq(t, SetMin(keep), SetMax(keep)) :
                  keep \in {{k \in 1..Len(t) : t[k] \notin chars}} }) : t \in {s} })

\* str.lstrip(chars)
LStripChars(s, chars) ==
    Once({ Once({ IF keep = {} THEN <<>> ELSE SubSeq(t, SetMin(keep), Len(t)) :
                  keep \in {{k \in 1..Len(t) : t[k] \notin chars}} }) : t \in {s} })

\* str.strip()
Strip(s) == StripChars(s, Whitespace)

\* str.startswith(prefix)
StartsWith(s, prefix) ==
    Len(s) >= Len(prefix) /\ SubSeq(s, 1, Len(prefix)) = prefix

\* str.endswith(suffix)
EndsWith(s, suffix) ==
    Len(s) >= Len(suffix) /\ SubSeq(s, Len(s) - Len(suffix) + 1, Len(s)) = suffix

\* sep.join(parts)
RECURSIVE Join(_, _)
Join(parts, sep) ==
    Once({ IF p = <<>> THEN <<>>
           ELSE IF Len(p) = 1 THEN p[1]
           ELSE p[1] \o <<sep>> \o Join(Tail(p), sep) : p \in {parts} })

\* str.split(sep): always at least one piece
RECURSIVE Split(_, _)
Split(s, sep) ==
    Once({ Once({ IF cut = {} THEN <<t>>
                  ELSE <<SubSeq(t, 1, SetMin(cut) - 1)>>
                           \o Split(SubSeq(t, SetMin(cut) + 1, Len(t)), sep) :
                  cut \in {{k \in 1..Len(t) : t[k] = sep}} }) : t \in {s} })

(* ------------------------------------------------------------------ *)
(* Section type normalizer                                            *)
(* ------------------------------------------------------------------ *)

section_type_map ==
    (<<"HOOK">> :> <<"hook">>) @@
    (<<"INTRO">> :> <<"intro">>) @@
    (<<"INTRODUCTION">> :> <<"intro">>) @@
    (<<"MAIN">> :> <<"main", "_", "content">>) @@
    (<<"MAIN", "_", "CONTENT">> :> <<"main", "_", "content">>) @@
    (<<"MAIN", "_", "1">> :> <<"main", "_", "content", "_", "1">>) @@
    (<<"MAIN", "_", "2">> :> <<"main", "_", "content", "_", "2">>) @@
    (<<"MAIN", "_", "3">> :> <<"main", "_", "content", "_", "3">>) @@
    (<<"MAIN", "_", "4">> :> <<"main", "_", "content", "_", "4">>) @@
    (<<"MAIN", "_", "5">> :> <<"main", "_", "content", "_", "5">>) @@
    (<<"SEGMENT", "_", "1">> :> <<"main", "_", "content", "_", "1">>) @@
    (<<"SEGMENT", "_", "2">> :> <<"main", "_", "content", "_", "2">>) @@
    (<<"SEGMENT", "_", "3">> :> <<"main", "_", "content", "_", "3">>) @@
    (<<"SEGMENT", "_", "4">> :> <<"main", "_", "content", "_", "4">>) @@
    (<<"SEGMENT", "_", "5">> :> <<"main", "_", "content", "_", "5">>) @@
    (<<"OUTRO">> :> <<"outro">>) @@
    (<<"CONCLUSION">> :> <<"outro">>) @@
    (<<"CTA">> :> <<"call", "_", "to", "_", "action">>)

\* variant: the default is the token itself, not lower-cased
mapped_type_raw(raw_type) ==
    IF raw_type \in DOMAIN section_type_map
    THEN section_type_map[raw_type]
    ELSE raw_type

\* variant: the default is current_type.upper()
mapped_type_upper(raw_type) ==
    IF raw_type \in DOMAIN section_type_map
    THEN section_type_map[raw_type]
    ELSE Upper(raw_type)

\* section_type_map.get(current_type, current_type.lower())
mapped_type(raw_type) ==
    IF raw_type \in DOMAIN section_type_map
    THEN section_type_map[raw_type]
    ELSE Lower(raw_type)

(* ------------------------------------------------------------------ *)
(* Line classification of the primary parser                          *)
(* ------------------------------------------------------------------ *)

HashHash == <<"#", "#">>
DURATION == <<"DURATION">>
B_ROLL == <<"B", "_", "ROLL">>
CONTENT == <<"CONTENT">>

\* line.startswith("##") and line.endswith("##")
IsMarkerLine(line) == StartsWith(line, HashHash) /\ EndsWith(line, HashHash)

\* line.strip("#").strip().upper()
MarkerOf(line) == Upper(Strip(StripChars(line, {"#"})))

\* current_type and marker != current_type
EndsSection(current, marker) == current # <<>> /\ marker # current

\* if current_type in ("DURATION", "B_ROLL"): continue
SkipsMarker(current, marker) ==
    EndsSection(current, marker) /\ current \in {DURATION, B_ROLL}

\* variant: the open section is saved without looking at its content
SaveOnMarkerAnyContent(current, marker, content) ==
    EndsSection(current, marker) /\ ~SkipsMarker(current, marker)

\* the open section is saved at this marker: if current_content
SaveOnMarker(current, marker, content) ==
    EndsSection(current, marker) /\ ~SkipsMarker(current, marker) /\ content # <<>>

\* variant: the section still open after the last line is not saved
SaveAtEndNever(current, content) == FALSE

\* the open section is saved at the end: if current_type and current_content
SaveAtEnd(current, content) == current # <<>> /\ content # <<>>

\* variant: sections.insert(0, current_section)
SaveSectionFirst(saved, section) == <<section>> \o saved

\* sections.append(current_section)
SaveSection(saved, section) == Append(saved, section)

\* variant: the fallback parser is never called
NeedsFallbackNever(found) == FALSE

\* variant: the fallback parser is called whatever the primary loop found
NeedsFallbackAlways(found) == TRUE

\* the fallback parser is called: if not sections
NeedsFallback(found) == found = <<>>

\* current_type == "DURATION" or (current_type and not current_duration
\*                                and line.lower().startswith("duration"))
IsDurationLine(current, duration, line) ==
    \/ current = DURATION
    \/ /\ current # <<>>
       /\ duration = <<>>
       /\ StartsWith(Lower(line), <<"duration">>)

\* variant: the line is kept with its dash
BRollEntryWhole(line) == line

\* the dash-stripped b-roll entry
BRollEntry(line) ==
    IF StartsWith(line, <<"-">>) THEN Strip(LStripChars(line, {"-"})) ELSE line

\* the section dictionary built when a section is saved; an absent
\* "duration" or "b_roll" key is the empty sequence
BuildSection(raw_type, content, duration, b_roll) ==
    [ type     |-> mapped_type(raw_type),
      content  |-> Strip(Join(content, NL)),
      duration |-> duration,
      b_roll   |-> b_roll ]

(* ------------------------------------------------------------------ *)
(* Fallback parser helpers                                            *)
(* ------------------------------------------------------------------ *)

\* the patterns, each reduced to the literal every match must contain
\* (all other parts of each regular expression are optional)
section_patterns ==
    << [cue |-> "HOOK",       type |-> <<"hook">>],
       [cue |-> "INTRO",      type |-> <<"intro">>],
       [cue |-> "MAIN",       type |-> <<"main", "_", "content">>],
       [cue |-> "SEGMENT",    type |-> <<"main", "_", "content">>],
       [cue |-> "OUTRO",      type |-> <<"outro">>],
       [cue |-> "CONCLUSION", type |-> <<"outro">>],
       [cue |-> "CTA",        type |-> <<"call", "_", "to", "_", "action">>] >>

\* the literal occurs inside the upper-cased word
WordContains(word, cue) ==
    \/ word = cue
    \/ word = "INTRODUCTION" /\ cue = "INTRO"
    \/ word = "DOMAIN" /\ cue = "MAIN"

\* re.search(pattern, line, re.IGNORECASE)
ReSearch(cue, line) ==
    \E k \in 1..Len(line) : WordContains(UpperAtom(line[k]), cue)

\* variant: the last pattern that matches gives the type
FirstMatchLast(line) ==
    Once({ IF hits = {} THEN 0 ELSE SetMax(hits) :
           hits \in {{p \in 1..Len(section_patterns) :
                        \E l \in {line} : ReSearch(section_patterns[p].cue, l)}} })

\* index of the first pattern that matches the line, 0 when none does
FirstMatch(line) ==
    Once({ IF hits = {} THEN 0 ELSE SetMin(hits) :
           hits \in {{p \in 1..Len(section_patterns) :
                        \E l \in {line} : ReSearch(section_patterns[p].cue, l)}} })

\* variant: current_content.insert(0, line)
FallbackAppendFirst(content, l) == <<l>> \o content

\* current_content.append(line)
FallbackAppend(content, l) == Append(content, l)

FallbackSection(type, content) ==
    [ type     |-> type,
      content  |-> Strip(Join(content, NL)),
      duration |-> <<>>,
      b_roll   |-> <<>> ]

\* variant: no catch-all section
CatchAllNone(found, text) == found

\* variant: the catch-all holds the text as given, not stripped
CatchAllUntrimmed(found, text) ==
    IF found = <<>>
    THEN << [ type     |-> <<"full", "_", "script">>,
              content  |-> text,
              duration |-> <<>>,
              b_roll   |-> <<>> ] >>
    ELSE found

\* if not sections: one full_script section with the whole stripped text
CatchAll(found, text) ==
    IF found = <<>>
    THEN << [ type     |-> <<"full", "_", "script">>,
              content  |-> Strip(text),
              duration |-> <<>>,
              b_roll   |-> <<>> ] >>
    ELSE found

(* ------------------------------------------------------------------ *)
(* Inputs                                                             *)
(* ------------------------------------------------------------------ *)

MarkerLine(token) == HashHash \o token \o HashHash

LineBlank    == <<>>
LineHook     == MarkerLine(<<"HOOK">>)
LineOutro    == <<"#", "#", " ", "outro", " ", "#", "#">>
LineDuration == MarkerLine(DURATION)
LineBRoll    == MarkerLine(B_ROLL)
LineNoToken  == <<"#", "#", "#", "#">>
LineHi       == <<" ", "Hi", " ">>
LineSeconds  == <<"15", " ", "s">>
LineShot     == <<"-", " ", "Shot">>
LineDurText  == <<"Duration", ":", " ", "30">>
LineCue      == <<"[", "INTRO", "]", " ", "Welcome">>
LineCueWord  == <<"Outro">>
LineDashes   == <<"-", "-", " ", "Shot">>

\* lines of scripts written in the marker format
MarkerFormatLines ==
    { LineBlank, LineHook, LineOutro, LineDuration, LineBRoll, LineHi, LineShot }

\* lines of scripts with a line that starts with the word "duration"
DurationTextLines == { LineHook, LineOutro, LineDuration, LineHi, LineDurText }

\* lines of scripts written with loose cues
CueFormatLines == { LineBlank, LineHi, LineCue, LineCueWord, LineHook }

\* lines of scripts with a marker that has no token
NoTokenLines == { LineNoToken, LineHook, LineHi }

\* lines of scripts with visual suggestions next to duration lines
VisualsLines == { LineHook, LineBRoll, LineDuration, LineDurText, LineDashes }

\* every script of at most MaxLines lines over the given lines
ScriptsOver(alphabet) ==
    UNION { { Join(ls, NL) : ls \in [1..n -> alphabet] } : n \in 1..MaxLines }

\* marker tokens of the sweep family: every key of the table and some others
SweepTokens ==
    DOMAIN section_type_map \cup
    { <<"CUSTOM">>, <<"Custom">>, <<"MAIN", "_", "6">>, <<"Segment", "_", "3">>,
      <<"full", "_", "script">>, <<"hook">>, <<"main", "_", "content", "_", "3">> }

\* one marker of each sweep token followed by a content line
SweepScripts == { Join(<<MarkerLine(t), LineSeconds>>, NL) : t \in SweepTokens }

\* header lines of the cue sweep: cues in every spelling, with numbers,
\* inside a longer word, and two cues on one line
CueSweepLines ==
    { <<"Outro", " ", "hook">>, <<"cta", " ", "conclusion">>,
      <<"Segment", " ", "3">>, <<"[", "MAIN", "_", "2", "]">>,
      <<"main", " ", "content", " ", "5">>, <<"Domain">>,
      <<"Introduction">>, <<"CTA">>, <<"segment", "_", "1", " ", "intro">>,
      <<"[", "Conclusion", "]">>, <<"HOOK", ":">> }

\* one header of the cue sweep followed by a content line
CueSweepScripts == { Join(<<c, LineHi>>, NL) : c \in CueSweepLines }

\* whitespace-only texts that are not made of blank lines alone
BlankScripts == { <<" ">>, <<" ", NL, " ">> }

\* lines of the texts of the fair specification: they reach every branch
\* of both loops and every tier of the degradation
TierLines == { LineBlank, LineHook, LineBRoll, LineDurText, LineHi }

Scripts ==
    ScriptsOver(MarkerFormatLines) \cup ScriptsOver(DurationTextLines) \cup
    ScriptsOver(CueFormatLines) \cup ScriptsOver(NoTokenLines) \cup
    ScriptsOver(VisualsLines) \cup SweepScripts \cup CueSweepScripts \cup
    BlankScripts

(* ------------------------------------------------------------------ *)
(* State                                                              *)
(* ------------------------------------------------------------------ *)

VARIABLES
    script_content,     \* the argument of parse_script_sections
    pc,                 \* "primary", "fallback" or "done"
    lines,              \* lines the running for-loop has not read yet
    sections,           \* parse_script_sections: sections (the result when done)
    current_type,
    current_content,
    current_duration,
    current_b_roll,
    parsing_b_roll,
    fb_sections,        \* fallback_parse_script: sections
    fb_current_type,
    fb_current_content,
    stored_generations, \* storage: script-generations-<user>
    stored_scripts,     \* storage: generated-scripts-<user>
    requests,           \* generate_script requests received so far
    updates,            \* update_script requests received so far
    worker,             \* per server process: the handler it runs, its locals
    tasks,              \* per server process: background tasks not yet started
    vo_script,          \* generate_voice_over: script
    vo_pc,              \* "build", "submit" or "done"
    vo_rest,            \* sections the for-loop has not read yet
    script_text,        \* generate_voice_over: script_text
    submitted,          \* text given to client.text_to_speech.convert
    first_run           \* the text and the result of an earlier call of the parser

storeVars == << stored_generations, stored_scripts, requests, updates, worker,
               tasks >>
voiceVars == << vo_script, vo_pc, vo_rest, script_text, submitted >>
twinVars == << first_run >>

vars == << script_content, pc, lines, sections, current_type, current_content,
           current_duration, current_b_roll, parsing_b_roll,
           fb_sections, fb_current_type, fb_current_content,
           storeVars, voiceVars, twinVars >>

(* ------------------------------------------------------------------ *)
(* Stored documents and server processes                              *)
(* ------------------------------------------------------------------ *)

\* generate_script requests the model admits
MaxJobs == 2

\* update_script requests the model admits
MaxUpdates == 1

\* sections of the longest script given to the voice-over
MaxSections == 3

\* server processes that share the storage; each runs one handler at a
\* time from start to end (the handlers are coroutines without an await)
Workers == {"w1", "w2"}

None == "None"

\* the one story of the user
Story == "s1"

\* the "sections" of a request: None, or the list given
NoSections == [given |-> FALSE, list |-> <<>>]

\* a server process that runs no handler
IdleWorker ==
    [ op |-> "idle", pc |-> "idle", generations |-> <<>>, scripts |-> <<>>,
      job |-> 0, status |-> None, next |-> None, script_id |-> 0,
      request |-> [title |-> None, sections |-> NoSections, approved |-> None] ]

\* empty storage, no request yet, every process idle
StoreIdle ==
    /\ stored_generations = <<>>
    /\ stored_scripts = <<>>
    /\ requests = 0
    /\ updates = 0
    /\ worker = [w \in Workers |-> IdleWorker]
    /\ tasks = [w \in Workers |-> <<>>]

\* no script: get_script returned None
NoScript == [found |-> FALSE, has_sections |-> FALSE, sections |-> <<>>, content |-> <<>>]

\* no voice-over request
VoiceIdle ==
    /\ vo_script = NoScript
    /\ vo_pc = "done"
    /\ vo_rest = <<>>
    /\ script_text = <<>>
    /\ submitted = <<>>

\* no earlier call of the parser
NoRun == [done |-> FALSE, content |-> <<>>, sections |-> <<>>]

TwinIdle == first_run = NoRun

\* no parse is running
ParserIdle ==
    /\ script_content = <<>>
    /\ pc = "done"
    /\ lines = <<>>
    /\ sections = <<>>
    /\ current_type = <<>>
    /\ current_content = <<>>
    /\ current_duration = <<>>
    /\ current_b_roll = <<>>
    /\ parsing_b_roll = FALSE
    /\ fb_sections = <<>>
    /\ fb_current_type = <<>>
    /\ fb_current_content = <<>>

primaryVars == << sections, current_type, current_content, current_duration,
                  current_b_roll, parsing_b_roll >>
fallbackVars == << fb_sections, fb_current_type, fb_current_content >>

Init ==
    /\ script_content \in Scripts
    /\ pc = "primary"
    /\ lines = Split(script_content, NL)
    /\ sections = <<>>
    /\ current_type = <<>>
    /\ current_content = <<>>
    /\ current_duration = <<>>
    /\ current_b_roll = <<>>
    /\ parsing_b_roll = FALSE
    /\ fb_sections = <<>>
    /\ fb_current_type = <<>>
    /\ fb_current_content = <<>>
    /\ StoreIdle
    /\ VoiceIdle
    /\ TwinIdle

\* variant: the line is read without line.strip()
line_unstripped == Head(lines)

\* line = line.strip() of the line the loop is at
line == Strip(Head(lines))

(* ------------------------------------------------------------------ *)
(* parse_script_sections                                              *)
(* ------------------------------------------------------------------ *)

\* if not line: continue
PrimaryBlank ==
    /\ pc = "primary" /\ lines # <<>>
    /\ line = <<>>
    /\ lines' = Tail(lines)
    /\ UNCHANGED << script_content, pc, primaryVars, fallbackVars >>
    /\ UNCHANGED << storeVars, voiceVars, twinVars >>

\* a marker line: save the open section, then switch mode or open a section
PrimaryMarker ==
    /\ pc = "primary" /\ lines # <<>>
    /\ line # <<>> /\ IsMarkerLine(line)
    /\ lines' = Tail(lines)
    /\ LET marker == MarkerOf(line)
           skip   == SkipsMarker(current_type, marker)
           save   == SaveOnMarker(current_type, marker, current_content)
       IN  /\ sections' =
                IF save
                THEN SaveSection(sections, BuildSection(current_type, current_content,
                                                   current_duration, current_b_roll))
                ELSE sections
           /\ current_content'  = IF save THEN <<>> ELSE current_content
           /\ current_duration' = IF save THEN <<>> ELSE current_duration
           /\ current_b_roll'   = IF save THEN <<>> ELSE current_b_roll
           /\ current_type' =
                IF skip \/ marker = DURATION \/ marker = B_ROLL
                THEN current_type ELSE marker
           /\ parsing_b_roll' =
                IF skip THEN parsing_b_roll ELSE (marker = B_ROLL)
    /\ UNCHANGED << script_content, pc, fallbackVars >>
    /\ UNCHANGED << storeVars, voiceVars, twinVars >>

\* elif parsing_b_roll
PrimaryBRoll ==
    /\ pc = "primary" /\ lines # <<>>
    /\ line # <<>> /\ ~IsMarkerLine(line)
    /\ parsing_b_roll
    /\ lines' = Tail(lines)
    /\ current_b_roll' = Append(current_b_roll, BRollEntry(line))
    /\ UNCHANGED << script_content, pc, sections, current_type, current_content,
                    current_duration, parsing_b_roll, fallbackVars >>
    /\ UNCHANGED << storeVars, voiceVars, twinVars >>

\* elif current_type == "DURATION" or (... startswith("duration"))
PrimaryDuration ==
    /\ pc = "primary" /\ lines # <<>>
    /\ line # <<>> /\ ~IsMarkerLine(line)
    /\ ~parsing_b_roll
    /\ IsDurationLine(current_type, current_duration, line)
    /\ lines' = Tail(lines)
    /\ current_duration' = line
    /\ current_type' = CONTENT
    /\ UNCHANGED << script_content, pc, sections, current_content,
                    current_b_roll, parsing_b_roll, fallbackVars >>
    /\ UNCHANGED << storeVars, voiceVars, twinVars >>

\* elif current_type
PrimaryContent ==
    /\ pc = "primary" /\ lines # <<>>
    /\ line # <<>> /\ ~IsMarkerLine(line)
    /\ ~parsing_b_roll
    /\ ~IsDurationLine(current_type, current_duration, line)
    /\ current_type # <<>>
    /\ lines' = Tail(lines)
    /\ current_content' = Append(current_content, line)
    /\ UNCHANGED << script_content, pc, sections, current_type,
                    current_duration, current_b_roll, parsing_b_roll, fallbackVars >>
    /\ UNCHANGED << storeVars, voiceVars, twinVars >>

\* no branch of the if/elif chain applies: the line is dropped
PrimaryNoSection ==
    /\ pc = "primary" /\ lines # <<>>
    /\ line # <<>> /\ ~IsMarkerLine(line)
    /\ ~parsing_b_roll
    /\ ~IsDurationLine(current_type, current_duration, line)
    /\ current_type = <<>>
    /\ lines' = Tail(lines)
    /\ UNCHANGED << script_content, pc, primaryVars, fallbackVars >>
    /\ UNCHANGED << storeVars, voiceVars, twinVars >>

\* after the loop: the last section, then return or call the fallback
PrimaryEnd ==
    /\ pc = "primary" /\ lines = <<>>
    /\ LET last == SaveAtEnd(current_type, current_content)
       IN  /\ sections' =
                IF last
                THEN SaveSection(sections, BuildSection(current_type, current_content,
                                                   current_duration, current_b_roll))
                ELSE sections
           /\ IF NeedsFallback(sections')
              THEN /\ pc' = "fallback"
                   /\ lines' = Split(script_content, NL)
              ELSE /\ pc' = "done"
                   /\ lines' = lines
    /\ UNCHANGED << script_content, current_type, current_content, current_duration,
                    current_b_roll, parsing_b_roll, fallbackVars >>
    /\ UNCHANGED << storeVars, voiceVars, twinVars >>

(* ------------------------------------------------------------------ *)
(* fallback_parse_script                                              *)
(* ------------------------------------------------------------------ *)

FallbackBlank ==
    /\ pc = "fallback" /\ lines # <<>>
    /\ line = <<>>
    /\ lines' = Tail(lines)
    /\ UNCHANGED << script_content, pc, primaryVars, fallbackVars >>
    /\ UNCHANGED << storeVars, voiceVars, twinVars >>

\* the line matches a pattern: save the open section, open a new one
FallbackHeader ==
    /\ pc = "fallback" /\ lines # <<>>
    /\ line # <<>> /\ FirstMatch(line) # 0
    /\ lines' = Tail(lines)
    /\ fb_sections' =
         IF SaveAtEnd(fb_current_type, fb_current_content)
         THEN SaveSection(fb_sections, FallbackSection(fb_current_type, fb_current_content))
         ELSE fb_sections
    /\ fb_current_type' = section_patterns[FirstMatch(line)].type
    /\ fb_current_content' = <<>>
    /\ UNCHANGED << script_content, pc, primaryVars >>
    /\ UNCHANGED << storeVars, voiceVars, twinVars >>

\* if not is_header and current_type
FallbackContent ==
    /\ pc = "fallback" /\ lines # <<>>
    /\ line # <<>> /\ FirstMatch(line) = 0
    /\ fb_current_type # <<>>
    /\ lines' = Tail(lines)
    /\ fb_current_content' = FallbackAppend(fb_current_content, line)
    /\ UNCHANGED << script_content, pc, primaryVars, fb_sections, fb_current_type >>
    /\ UNCHANGED << storeVars, voiceVars, twinVars >>

\* a line before the first header is dropped
FallbackNoSection ==
    /\ pc = "fallback" /\ lines # <<>>
    /\ line # <<>> /\ FirstMatch(line) = 0
    /\ fb_current_type = <<>>
    /\ lines' = Tail(lines)
    /\ UNCHANGED << script_content, pc, primaryVars, fallbackVars >>
    /\ UNCHANGED << storeVars, voiceVars, twinVars >>

\* after the loop: the last section, the catch-all, and the return into
\* sections = fallback_parse_script(script_content)
FallbackEnd ==
    /\ pc = "fallback" /\ lines = <<>>
    /\ LET found ==
             IF SaveAtEnd(fb_current_type, fb_current_content)
             THEN SaveSection(fb_sections, FallbackSection(fb_current_type, fb_current_content))
             ELSE fb_sections
       IN  /\ fb_sections' = CatchAll(found, script_content)
           /\ sections' = fb_sections'
    /\ pc' = "done"
    /\ UNCHANGED << script_content, lines, current_type, current_content,
                    current_duration, current_b_roll, parsing_b_roll,
                    fb_current_type, fb_current_content >>
    /\ UNCHANGED << storeVars, voiceVars, twinVars >>

Next ==
    \/ PrimaryBlank
    \/ PrimaryMarker
    \/ PrimaryBRoll
    \/ PrimaryDuration
    \/ PrimaryContent
    \/ PrimaryNoSection
    \/ PrimaryEnd
    \/ FallbackBlank
    \/ FallbackHeader
    \/ FallbackContent
    \/ FallbackNoSection
    \/ FallbackEnd

Spec == Init /\ [][Next]_vars

\* a call on one of the texts over TierLines
FairInit ==
    /\ script_content \in ScriptsOver(TierLines)
    /\ pc = "primary"
    /\ lines = Split(script_content, NL)
    /\ sections = <<>>
    /\ current_type = <<>>
    /\ current_content = <<>>
    /\ current_duration = <<>>
    /\ current_b_roll = <<>>
    /\ parsing_b_roll = FALSE
    /\ fb_sections = <<>>
    /\ fb_current_type = <<>>
    /\ fb_current_content = <<>>
    /\ StoreIdle
    /\ VoiceIdle
    /\ TwinIdle

\* the loops of both parsers and the code after them run to the return:
\* a call that can take a step takes it
FairSpec == FairInit /\ [][Next]_vars /\ WF_vars(Next)

(* ------------------------------------------------------------------ *)
(* Two calls of the parser on texts that differ by a blank line       *)
(* ------------------------------------------------------------------ *)

\* lines of the texts of the first call: they reach every branch of both
\* loops; the second call adds the blank lines
TwinLines == { LineHook, LineBRoll, LineDurText, LineHi }

\* an empty line and a line of whitespace only
BlankLines == { <<>>, <<" ">> }

\* the text with line l put in after its k-th line (k = 0: before the first)
InsertLine(text, k, l) ==
    LET all == Split(text, NL)
    IN  Join(SubSeq(all, 1, k) \o <<l>> \o SubSeq(all, k + 1, Len(all)), NL)

TwinInit ==
    /\ script_content \in ScriptsOver(TwinLines)
    /\ pc = "primary"
    /\ lines = Split(script_content, NL)
    /\ sections = <<>>
    /\ current_type = <<>>
    /\ current_content = <<>>
    /\ current_duration = <<>>
    /\ current_b_roll = <<>>
    /\ parsing_b_roll = FALSE
    /\ fb_sections = <<>>
    /\ fb_current_type = <<>>
    /\ fb_current_content = <<>>
    /\ StoreIdle
    /\ VoiceIdle
    /\ TwinIdle

\* the first call has returned; parse_script_sections is called again,
\* on the same text with one more blank line in it
Reparse ==
    /\ pc = "done"
    /\ ~first_run.done
    /\ first_run' = [done |-> TRUE, content |-> script_content, sections |-> sections]
    /\ \E k \in 0..Len(Split(script_content, NL)), l \in BlankLines :
         script_content' = InsertLine(script_content, k, l)
    /\ pc' = "primary"
    /\ lines' = Split(script_content', NL)
    /\ sections' = <<>>
    /\ current_type' = <<>>
    /\ current_content' = <<>>
    /\ current_duration' = <<>>
    /\ current_b_roll' = <<>>
    /\ parsing_b_roll' = FALSE
    /\ fb_sections' = <<>>
    /\ fb_current_type' = <<>>
    /\ fb_current_content' = <<>>
    /\ UNCHANGED << storeVars, voiceVars >>

TwinNext ==
    \/ Next
    \/ Reparse

TwinSpec == TwinInit /\ [][TwinNext]_vars

(* ------------------------------------------------------------------ *)
(* Script generation jobs and generated scripts in storage            *)
(* ------------------------------------------------------------------ *)

\* db.storage.json.get(key, default=[])
Get(stored) == stored

\* variant: put adds the documents to those already stored
PutAppend(stored, documents) == stored \o documents

\* db.storage.json.put(key, documents): the stored list is replaced
Put(stored, documents) == documents

\* the job generate_script stores
NewGeneration(id) ==
    [ id |-> id, story_id |-> Story, status |-> "pending", completed_at |-> None ]

\* gen.story_id == request.story_id and gen.status in ["pending", "in-progress"]
IsActive(gen) == gen.story_id = Story /\ gen.status \in {"pending", "in-progress"}

\* the loop of update_script_generation_status: the first job with the
\* id gets the status, and completed_at when one is given
SetStatus(generations, id, status, completed_at) ==
    LET hit == {k \in 1..Len(generations) : generations[k].id = id}
    IN  IF hit = {} THEN generations
        ELSE [generations EXCEPT ![SetMin(hit)] =
                [@ EXCEPT !.status = status,
                          !.completed_at = IF completed_at # None THEN completed_at ELSE @]]

\* the sections parse_script_sections returned for the generated text
GeneratedSections == << [type |-> <<"hook">>, content |-> <<"Hi">>] >>

\* the script generate_script_with_openai builds for its job
NewScript(job) ==
    [ id |-> job, story_id |-> Story, title |-> "topic",
      sections |-> GeneratedSections, generation_id |-> job,
      modified_at |-> None, approved |-> "False" ]

\* index of the first script with the id, of the story; 0 when none
ScriptIndex(scripts, script_id) ==
    LET hit == {k \in 1..Len(scripts) :
                  scripts[k].id = script_id /\ scripts[k].story_id = Story}
    IN  IF hit = {} THEN 0 ELSE SetMin(hit)

\* the sections a request of the user gives
EditedSections == << [type |-> <<"hook">>, content |-> <<"Welcome">>] >>

\* request bodies of update_script: the fields that are not None are
\* applied; a request gives one of the three fields, or none
UpdateRequests ==
    { [title |-> "t1", sections |-> NoSections, approved |-> None],
      [title |-> None, sections |-> [given |-> TRUE, list |-> EditedSections],
       approved |-> None],
      [title |-> None, sections |-> NoSections, approved |-> "True"],
      [title |-> None, sections |-> NoSections, approved |-> None] }

\* update_script: the fields of the request and modified_at are set on
\* the script at script_index
ApplyUpdate(scripts, script_index, request) ==
    [scripts EXCEPT ![script_index] =
       [@ EXCEPT !.title = IF request.title # None THEN request.title ELSE @,
                 !.sections = IF request.sections.given THEN request.sections.list ELSE @,
                 !.approved = IF request.approved # None THEN request.approved ELSE @,
                 !.modified_at = "now"]]

StoreInit ==
    /\ StoreIdle
    /\ ParserIdle
    /\ VoiceIdle
    /\ TwinIdle

\* generate_script up to the test for a job in progress: the jobs are
\* read; with an active job of the story that job is returned
GenerateScriptRead(w) ==
    /\ worker[w].op = "idle"
    /\ requests < MaxJobs
    /\ requests' = requests + 1
    /\ LET generations == Get(stored_generations)
       IN  IF \E k \in 1..Len(generations) : IsActive(generations[k])
           THEN worker' = worker
           ELSE worker' = [worker EXCEPT ![w] =
                             [IdleWorker EXCEPT !.op = "generate_script", !.pc = "save",
                                                !.generations = generations,
                                                !.job = requests + 1]]
    /\ UNCHANGED << stored_generations, stored_scripts, updates, tasks >>
    /\ UNCHANGED << script_content, pc, lines, primaryVars, fallbackVars, voiceVars, twinVars >>

\* generate_script: the jobs read plus the new job are saved and the
\* background task is added
GenerateScriptSave(w) ==
    /\ worker[w].op = "generate_script" /\ worker[w].pc = "save"
    /\ stored_generations' =
         Put(stored_generations,
             Append(worker[w].generations, NewGeneration(worker[w].job)))
    /\ tasks' = [tasks EXCEPT ![w] = Append(@, worker[w].job)]
    /\ worker' = [worker EXCEPT ![w] = IdleWorker]
    /\ UNCHANGED << stored_scripts, requests, updates >>
    /\ UNCHANGED << script_content, pc, lines, primaryVars, fallbackVars, voiceVars, twinVars >>

\* generate_script_with_openai starts and calls
\* update_script_generation_status(..., "in-progress", ...)
TaskBegin(w) ==
    /\ worker[w].op = "idle"
    /\ tasks[w] # <<>>
    /\ tasks' = [tasks EXCEPT ![w] = Tail(@)]
    /\ worker' = [worker EXCEPT ![w] =
                    [IdleWorker EXCEPT !.op = "task", !.pc = "status_read",
                                       !.job = Head(tasks[w]),
                                       !.status = "in-progress", !.next = "prepare"]]
    /\ UNCHANGED << stored_generations, stored_scripts, requests, updates >>
    /\ UNCHANGED << script_content, pc, lines, primaryVars, fallbackVars, voiceVars, twinVars >>

\* update_script_generation_status: the jobs are read
UpdateStatusRead(w) ==
    /\ worker[w].pc = "status_read"
    /\ worker' = [worker EXCEPT ![w].generations = Get(stored_generations),
                                ![w].pc = "status_save"]
    /\ UNCHANGED << stored_generations, stored_scripts, requests, updates, tasks >>
    /\ UNCHANGED << script_content, pc, lines, primaryVars, fallbackVars, voiceVars, twinVars >>

\* update_script_generation_status: the status is set in the jobs read
\* and they are saved; the task goes on, or ends after its last status
UpdateStatusSave(w) ==
    /\ worker[w].pc = "status_save"
    /\ stored_generations' =
         Put(stored_generations,
             SetStatus(worker[w].generations, worker[w].job, worker[w].status,
                       IF worker[w].status = "completed" THEN "now" ELSE None))
    /\ worker' = [worker EXCEPT ![w] =
                    IF worker[w].next = "end" THEN IdleWorker
                    ELSE [@ EXCEPT !.pc = worker[w].next, !.generations = <<>>]]
    /\ UNCHANGED << stored_scripts, requests, updates, tasks >>
    /\ UNCHANGED << script_content, pc, lines, primaryVars, fallbackVars, voiceVars, twinVars >>

\* the API key, the story and the story text are fetched: any of them
\* missing raises, and the handler of the exception sets status failed;
\* otherwise the status is set to in-progress once more
TaskPrepare(w) ==
    /\ worker[w].pc = "prepare"
    /\ \E ok \in BOOLEAN :
         worker' = [worker EXCEPT ![w].pc = "status_read",
                                  ![w].status = IF ok THEN "in-progress" ELSE "failed",
                                  ![w].next = IF ok THEN "call" ELSE "end"]
    /\ UNCHANGED << stored_generations, stored_scripts, requests, updates, tasks >>
    /\ UNCHANGED << script_content, pc, lines, primaryVars, fallbackVars, voiceVars, twinVars >>

\* the model call and the parse of its text; a failed call raises
TaskCall(w) ==
    /\ worker[w].pc = "call"
    /\ \E ok \in BOOLEAN :
         worker' = IF ok
                   THEN [worker EXCEPT ![w].pc = "scripts_read"]
                   ELSE [worker EXCEPT ![w].pc = "status_read",
                                       ![w].status = "failed", ![w].next = "end"]
    /\ UNCHANGED << stored_generations, stored_scripts, requests, updates, tasks >>
    /\ UNCHANGED << script_content, pc, lines, primaryVars, fallbackVars, voiceVars, twinVars >>

\* existing_scripts = get_generated_scripts_for_user(user_id)
TaskScriptsRead(w) ==
    /\ worker[w].pc = "scripts_read"
    /\ worker' = [worker EXCEPT ![w].scripts = Get(stored_scripts),
                                ![w].pc = "scripts_save"]
    /\ UNCHANGED << stored_generations, stored_scripts, requests, updates, tasks >>
    /\ UNCHANGED << script_content, pc, lines, primaryVars, fallbackVars, voiceVars, twinVars >>

\* the scripts read plus the new script are saved; then
\* update_script_generation_status(..., "completed", ...)
TaskScriptsSave(w) ==
    /\ worker[w].pc = "scripts_save"
    /\ stored_scripts' =
         Put(stored_scripts, Append(worker[w].scripts, NewScript(worker[w].job)))
    /\ worker' = [worker EXCEPT ![w].pc = "status_read", ![w].scripts = <<>>,
                                ![w].status = "completed", ![w].next = "end"]
    /\ UNCHANGED << stored_generations, requests, updates, tasks >>
    /\ UNCHANGED << script_content, pc, lines, primaryVars, fallbackVars, voiceVars, twinVars >>

\* update_script up to the 404: the scripts are read and the script is
\* looked up
UpdateScriptRead(w) ==
    /\ worker[w].op = "idle"
    /\ updates < MaxUpdates
    /\ updates' = updates + 1
    /\ \E script_id \in 1..MaxJobs, request \in UpdateRequests :
         LET scripts == Get(stored_scripts)
         IN  IF ScriptIndex(scripts, script_id) = 0
             THEN worker' = worker
             ELSE worker' = [worker EXCEPT ![w] =
                               [IdleWorker EXCEPT !.op = "update_script", !.pc = "save",
                                                  !.scripts = scripts,
                                                  !.script_id = script_id,
                                                  !.request = request]]
    /\ UNCHANGED << stored_generations, stored_scripts, requests, tasks >>
    /\ UNCHANGED << script_content, pc, lines, primaryVars, fallbackVars, voiceVars, twinVars >>

\* update_script: the request is applied to the scripts read and they
\* are saved
UpdateScriptSave(w) ==
    /\ worker[w].op = "update_script" /\ worker[w].pc = "save"
    /\ stored_scripts' =
         Put(stored_scripts,
             ApplyUpdate(worker[w].scripts,
                         ScriptIndex(worker[w].scripts, worker[w].script_id),
                         worker[w].request))
    /\ worker' = [worker EXCEPT ![w] = IdleWorker]
    /\ UNCHANGED << stored_generations, requests, updates, tasks >>
    /\ UNCHANGED << script_content, pc, lines, primaryVars, fallbackVars, voiceVars, twinVars >>

StoreNext ==
    \E w \in Workers :
        \/ GenerateScriptRead(w)
        \/ GenerateScriptSave(w)
        \/ TaskBegin(w)
        \/ UpdateStatusRead(w)
        \/ UpdateStatusSave(w)
        \/ TaskPrepare(w)
        \/ TaskCall(w)
        \/ TaskScriptsRead(w)
        \/ TaskScriptsSave(w)
        \/ UpdateScriptRead(w)
        \/ UpdateScriptSave(w)

StoreSpec == StoreInit /\ [][StoreNext]_vars

(* ------------------------------------------------------------------ *)
(* Storage operations that fail                                       *)
(* ------------------------------------------------------------------ *)

\* get_script_generations_for_user / get_generated_scripts_for_user when
\* db.storage.json.get or the construction of a record raises:
\* except Exception: return []
GetFailed == <<>>

\* generate_script: the read of the jobs fails, so no job looks active
GenerateScriptReadFails(w) ==
    /\ worker[w].op = "idle"
    /\ requests < MaxJobs
    /\ requests' = requests + 1
    /\ worker' = [worker EXCEPT ![w] =
                    [IdleWorker EXCEPT !.op = "generate_script", !.pc = "save",
                                       !.generations = GetFailed,
                                       !.job = requests + 1]]
    /\ UNCHANGED << stored_generations, stored_scripts, updates, tasks >>
    /\ UNCHANGED << script_content, pc, lines, primaryVars, fallbackVars, voiceVars, twinVars >>

\* generate_script: the save raises HTTPException(500); the request ends
\* before background_tasks.add_task
GenerateScriptSaveFails(w) ==
    /\ worker[w].op = "generate_script" /\ worker[w].pc = "save"
    /\ worker' = [worker EXCEPT ![w] = IdleWorker]
    /\ UNCHANGED << stored_generations, stored_scripts, requests, updates, tasks >>
    /\ UNCHANGED << script_content, pc, lines, primaryVars, fallbackVars, voiceVars, twinVars >>

\* update_script_generation_status: the read of the jobs fails
UpdateStatusReadFails(w) ==
    /\ worker[w].pc = "status_read"
    /\ worker' = [worker EXCEPT ![w].generations = GetFailed,
                                ![w].pc = "status_save"]
    /\ UNCHANGED << stored_generations, stored_scripts, requests, updates, tasks >>
    /\ UNCHANGED << script_content, pc, lines, primaryVars, fallbackVars, voiceVars, twinVars >>

\* update_script_generation_status: the save raises; the exception is
\* printed (110-111) and the caller goes on
UpdateStatusSaveFails(w) ==
    /\ worker[w].pc = "status_save"
    /\ worker' = [worker EXCEPT ![w] =
                    IF worker[w].next = "end" THEN IdleWorker
                    ELSE [@ EXCEPT !.pc = worker[w].next, !.generations = <<>>]]
    /\ UNCHANGED << stored_generations, stored_scripts, requests, updates, tasks >>
    /\ UNCHANGED << script_content, pc, lines, primaryVars, fallbackVars, voiceVars, twinVars >>

\* generate_script_with_openai: the read of the scripts fails
TaskScriptsReadFails(w) ==
    /\ worker[w].pc = "scripts_read"
    /\ worker' = [worker EXCEPT ![w].scripts = GetFailed,
                                ![w].pc = "scripts_save"]
    /\ UNCHANGED << stored_generations, stored_scripts, requests, updates, tasks >>
    /\ UNCHANGED << script_content, pc, lines, primaryVars, fallbackVars, voiceVars, twinVars >>

\* generate_script_with_openai: the save of the scripts raises; the
\* handler of line 273 sets the status failed
TaskScriptsSaveFails(w) ==
    /\ worker[w].pc = "scripts_save"
    /\ worker' = [worker EXCEPT ![w].pc = "status_read", ![w].scripts = <<>>,
                                ![w].status = "failed", ![w].next = "end"]
    /\ UNCHANGED << stored_generations, stored_scripts, requests, updates, tasks >>
    /\ UNCHANGED << script_content, pc, lines, primaryVars, fallbackVars, voiceVars, twinVars >>

\* update_script: the read of the scripts fails, no script is found and
\* the request ends with the 404
UpdateScriptReadFails(w) ==
    /\ worker[w].op = "idle"
    /\ updates < MaxUpdates
    /\ updates' = updates + 1
    /\ ScriptIndex(GetFailed, 1) = 0
    /\ UNCHANGED << stored_generations, stored_scripts, requests, worker, tasks >>
    /\ UNCHANGED << script_content, pc, lines, primaryVars, fallbackVars, voiceVars, twinVars >>

\* update_script: the save raises HTTPException(500)
UpdateScriptSaveFails(w) ==
    /\ worker[w].op = "update_script" /\ worker[w].pc = "save"
    /\ worker' = [worker EXCEPT ![w] = IdleWorker]
    /\ UNCHANGED << stored_generations, stored_scripts, requests, updates, tasks >>
    /\ UNCHANGED << script_content, pc, lines, primaryVars, fallbackVars, voiceVars, twinVars >>

\* a step of a request or a task, its storage operation working or failing
FaultNext ==
    \/ StoreNext
    \/ \E w \in Workers :
        \/ GenerateScriptReadFails(w)
        \/ GenerateScriptSaveFails(w)
        \/ UpdateStatusReadFails(w)
        \/ UpdateStatusSaveFails(w)
        \/ TaskScriptsReadFails(w)
        \/ TaskScriptsSaveFails(w)
        \/ UpdateScriptReadFails(w)
        \/ UpdateScriptSaveFails(w)

FaultSpec == StoreInit /\ [][FaultNext]_vars

\* the steps of process w that follow the arrival of a request: the rest
\* of a handler that has started and the background tasks it has added
Progress(w) ==
    \/ GenerateScriptSave(w) \/ GenerateScriptSaveFails(w)
    \/ TaskBegin(w)
    \/ UpdateStatusRead(w) \/ UpdateStatusReadFails(w)
    \/ UpdateStatusSave(w) \/ UpdateStatusSaveFails(w)
    \/ TaskPrepare(w)
    \/ TaskCall(w)
    \/ TaskScriptsRead(w) \/ TaskScriptsReadFails(w)
    \/ TaskScriptsSave(w) \/ TaskScriptsSaveFails(w)
    \/ UpdateScriptSave(w) \/ UpdateScriptSaveFails(w)

\* a handler that has started runs to its end and an added background
\* task is started and runs to its end; no request has to arrive
FaultFairSpec ==
    StoreInit /\ [][FaultNext]_vars /\ \A w \in Workers : WF_vars(Progress(w))

(* ------------------------------------------------------------------ *)
(* generate_voice_over: the text given to speech synthesis            *)
(* ------------------------------------------------------------------ *)

\* contents of the sections of the scripts given to the voice-over
SectionContents == { <<"Hi">>, <<"Welcome">>, <<"Hi", NL, "Shot">> }

\* scripts with a "sections" key, scripts with a "content" key only or
\* with neither, and the script that is not found
VoiceScripts ==
    { [found |-> TRUE, has_sections |-> TRUE, sections |-> ss, content |-> <<>>] :
        ss \in UNION { [1..n -> [content : SectionContents]] : n \in 0..MaxSections } }
    \cup { [found |-> TRUE, has_sections |-> FALSE, sections |-> <<>>, content |-> c] :
             c \in SectionContents \cup {<<>>} }
    \cup { NoScript }

VoiceInit ==
    /\ vo_script \in VoiceScripts
    /\ vo_pc = "start"
    /\ vo_rest = <<>>
    /\ script_text = <<>>
    /\ submitted = <<>>
    /\ ParserIdle
    /\ StoreIdle
    /\ TwinIdle

\* variant: the text of the section is put before the text built so far
AppendSectionFirst(text, section) == section.content \o <<NL, NL>> \o text

\* script_text += section["content"] + "\n\n"
AppendSection(text, section) == text \o section.content \o <<NL, NL>>

\* get_script returned None, or ELEVENLABS_API_KEY is not configured:
\* the request ends with an error and nothing is submitted
VoiceError ==
    /\ vo_pc = "start"
    /\ vo_pc' = "error"
    /\ UNCHANGED << vo_script, vo_rest, script_text, submitted >>
    /\ UNCHANGED << script_content, pc, lines, primaryVars, fallbackVars, storeVars, twinVars >>

\* script_text = "" and the test `if "sections" in script`
VoiceStart ==
    /\ vo_pc = "start"
    /\ vo_script.found
    /\ vo_pc' = "build"
    /\ IF vo_script.has_sections
       THEN vo_rest' = vo_script.sections /\ script_text' = <<>>
       ELSE vo_rest' = <<>> /\ script_text' = vo_script.content
    /\ UNCHANGED << vo_script, submitted >>
    /\ UNCHANGED << script_content, pc, lines, primaryVars, fallbackVars, storeVars, twinVars >>

\* one turn of: for section in script["sections"]
VoiceSection ==
    /\ vo_pc = "build" /\ vo_rest # <<>>
    /\ script_text' = AppendSection(script_text, Head(vo_rest))
    /\ vo_rest' = Tail(vo_rest)
    /\ UNCHANGED << vo_script, vo_pc, submitted >>
    /\ UNCHANGED << script_content, pc, lines, primaryVars, fallbackVars, storeVars, twinVars >>

\* client.text_to_speech.convert(text=script_text, ...)
VoiceSubmit ==
    /\ vo_pc = "build" /\ vo_rest = <<>>
    /\ submitted' = script_text
    /\ vo_pc' = "done"
    /\ UNCHANGED << vo_script, vo_rest, script_text >>
    /\ UNCHANGED << script_content, pc, lines, primaryVars, fallbackVars, storeVars, twinVars >>

VoiceNext ==
    \/ VoiceError
    \/ VoiceStart
    \/ VoiceSection
    \/ VoiceSubmit

VoiceSpec == VoiceInit /\ [][VoiceNext]_vars

(* ------------------------------------------------------------------ *)
(* Vocabulary of the properties                                       *)
(* ------------------------------------------------------------------ *)

\* the non-blank lines of a text, trimmed, in order
TrimmedLines(text) ==
    LET raw == Split(text, NL)
        NonBlank(l) == l # <<>>
    IN  SelectSeq([k \in 1..Len(raw) |-> Strip(raw[k])], NonBlank)

\* the non-blank lines of the input; the properties bind it once as src
Source == TrimmedLines(script_content)

Done == pc = "done"

\* a marker line that opens a section: its token is not empty and is
\* neither DURATION nor B_ROLL
IsOpener(l) ==
    IsMarkerLine(l) /\ MarkerOf(l) \notin {<<>>, DURATION, B_ROLL}

IsPlain(l) == ~IsMarkerLine(l)

LooksLikeDuration(l) == StartsWith(Lower(l), <<"duration">>)

\* a plain line the duration heuristic does not touch
IsText(l) == IsPlain(l) /\ ~LooksLikeDuration(l)

IsBullet(l) == IsPlain(l) /\ StartsWith(l, <<"-">>)

FullScript == <<"full", "_", "script">>

\* the catch-all result for the input
CatchAllResult ==
    << [ type |-> FullScript, content |-> Strip(script_content),
         duration |-> <<>>, b_roll |-> <<>> ] >>

\* the normalizer as the reference table states it, for an upper-cased token
ReferenceType(token) ==
    CASE token = <<"HOOK">> -> <<"hook">>
      [] token \in {<<"INTRO">>, <<"INTRODUCTION">>} -> <<"intro">>
      [] token \in {<<"MAIN">>, <<"MAIN", "_", "CONTENT">>} -> <<"main", "_", "content">>
      [] /\ Len(token) = 3
         /\ token[1] \in {"MAIN", "SEGMENT"}
         /\ token[2] = "_"
         /\ token[3] \in {"1", "2", "3", "4", "5"} -> <<"main", "_", "content", "_", token[3]>>
      [] token \in {<<"OUTRO">>, <<"CONCLUSION">>} -> <<"outro">>
      [] token = <<"CTA">> -> <<"call", "_", "to", "_", "action">>
      [] OTHER -> Lower(token)

(* ------------------------------------------------------------------ *)
(* C1  Totality                                                       *)
(* ------------------------------------------------------------------ *)

\* C1: for every non-empty input string the parser returns at least one
\* section.
C1_Totality ==
    (Done /\ script_content # <<>>) => Len(sections) >= 1

\* a non-empty text of whitespace only has been parsed down to the catch-all
C1_Witness ==
    /\ Done
    /\ script_content # <<>>
    /\ Source = <<>>
    /\ Len(sections) = 1

(* ------------------------------------------------------------------ *)
(* C2  Emptiness                                                      *)
(* ------------------------------------------------------------------ *)

\* C2: for an input that is empty or only whitespace (blank lines
\* included) the parser returns the empty sequence.
C2_Emptiness ==
    (Done /\ Strip(script_content) = <<>>) => sections = <<>>

(* ------------------------------------------------------------------ *)
(* C3  Duration capture                                               *)
(* ------------------------------------------------------------------ *)

\* src is: a section marker, one or more text lines, ##DURATION##,
\* one text line, then text lines only (d is the index of ##DURATION##)
DurationShape(src, d) ==
    /\ d \in 3..(Len(src) - 1)
    /\ IsOpener(src[1])
    /\ IsMarkerLine(src[d]) /\ MarkerOf(src[d]) = DURATION
    /\ \A k \in 2..Len(src) : k # d => IsText(src[k])

\* C3: a ##DURATION## marker inside a section that has content does not
\* split it; the next line is the duration and is not content; the result
\* is exactly one section holding the lines before and after in order.
C3_DurationCapture ==
    Done =>
      \A src \in {Source} : \A d \in 1..Len(src) :
        DurationShape(src, d) =>
          sections =
            << [ type     |-> ReferenceType(MarkerOf(src[1])),
                 content  |-> Join(SubSeq(src, 2, d - 1)
                                     \o SubSeq(src, d + 2, Len(src)), NL),
                 duration |-> src[d + 1],
                 b_roll   |-> <<>> ] >>

(* ------------------------------------------------------------------ *)
(* C4  Visual suggestions                                             *)
(* ------------------------------------------------------------------ *)

\* src is: a section marker, one or more text lines, ##B_ROLL##, then
\* one or more bullet lines up to the end (b is the index of ##B_ROLL##)
BRollShape(src, b) ==
    /\ b \in 3..(Len(src) - 1)
    /\ IsOpener(src[1])
    /\ IsMarkerLine(src[b]) /\ MarkerOf(src[b]) = B_ROLL
    /\ \A k \in 2..(b - 1) : IsText(src[k]) /\ ~IsBullet(src[k])
    /\ \A k \in (b + 1)..Len(src) : IsBullet(src[k])

\* C4: bullet lines after ##B_ROLL## become, dash stripped and in order,
\* the visual suggestions of the section whose content precedes the marker.
C4_VisualSuggestions ==
    Done =>
      \A src \in {Source} : \A b \in 1..Len(src) :
        BRollShape(src, b) =>
          \E k \in 1..Len(sections) :
            /\ sections[k].content = Join(SubSeq(src, 2, b - 1), NL)
            /\ sections[k].b_roll =
                 [j \in 1..(Len(src) - b) |->
                    Strip(LStripChars(src[b + j], {"-"}))]

(* ------------------------------------------------------------------ *)
(* C5  Marker round-trip                                              *)
(* ------------------------------------------------------------------ *)

MarkerPositions(src) == {k \in 1..Len(src) : IsMarkerLine(src[k])}

\* position of the j-th of the marker positions mp
NthMarker(mp, j) ==
    CHOOSE m \in mp : Cardinality({x \in mp : x <= m}) = j

\* position of the last line that belongs to the marker line at m
LastLineOf(src, mp, m) ==
    LET later == {x \in mp : x > m}
    IN  IF later = {} THEN Len(src) ELSE SetMin(later) - 1

\* src is made of section markers with pairwise different tokens, each
\* followed by one or more plain lines
RoundTripShape(src, mp) ==
    /\ src # <<>>
    /\ 1 \in mp
    /\ \A m \in mp :
         /\ IsOpener(src[m])
         /\ m + 1 <= Len(src)
         /\ m + 1 \notin mp
    /\ \A m, n \in mp : m # n => MarkerOf(src[m]) # MarkerOf(src[n])

\* one section per marker, in order, typed by the marker and holding
\* exactly the marker's lines
RoundTripResult(src, mp) ==
    /\ Len(sections) = Cardinality(mp)
    /\ \A j \in 1..Len(sections) :
         LET m == NthMarker(mp, j)
         IN  /\ sections[j].type = ReferenceType(MarkerOf(src[m]))
             /\ sections[j].content =
                  Join(SubSeq(src, m + 1, LastLineOf(src, mp, m)), NL)

NoDurationText(src) == \A k \in 1..Len(src) : ~LooksLikeDuration(src[k])

IsBracketCue(l) ==
    /\ Len(l) >= 4
    /\ l[1] = "[" /\ l[3] = "]"
    /\ FirstMatch(<<l[2]>>) # 0
    /\ Strip(SubSeq(l, 4, Len(l))) # <<>>

\* C6: without markers, a line "[CUE] text" gives a section of the cue's
\* type whose content holds the text after the cue.
C6_FallbackActivation ==
    Done =>
      \A src \in {Source} :
        MarkerPositions(src) = {} =>
          \A k \in 1..Len(src) :
            IsBracketCue(src[k]) =>
              \E j \in 1..Len(sections) :
                /\ sections[j].type = section_patterns[FirstMatch(<<src[k][2]>>)].type
                /\ StartsWith(sections[j].content,
                              Strip(SubSeq(src[k], 4, Len(src[k]))))

(* ------------------------------------------------------------------ *)
(* C7  Catch-all                                                      *)
(* ------------------------------------------------------------------ *)

\* a non-blank input with no marker line and no line matching a cue pattern
Unstructured(src) ==
    /\ src # <<>>
    /\ \A k \in 1..Len(src) : ~IsMarkerLine(src[k]) /\ FirstMatch(src[k]) = 0

\* C7: an unstructured input gives exactly one full_script section with
\* the trimmed input as content, no duration and no visual suggestions.
C7_CatchAll ==
    Done =>
      \A src \in {Source} : Unstructured(src) => sections = CatchAllResult

\* an unstructured text of several lines that needed trimming has been parsed
C7_Witness ==
    /\ Done
    /\ Unstructured(Source)
    /\ Len(Source) >= 2
    /\ Strip(script_content) # script_content
    /\ sections = CatchAllResult

(* ------------------------------------------------------------------ *)
(* C8  Content invariant                                              *)
(* ------------------------------------------------------------------ *)

\* C8: in every result either every section has non-empty content or the
\* result is the single catch-all section with the whole trimmed text.
C8_ContentInvariant ==
    Done =>
      \/ \A k \in 1..Len(sections) : sections[k].content # <<>>
      \/ sections = CatchAllResult

\* a marker directly followed by another marker, in a result of sections
\* that is not the catch-all
C8_Witness ==
    /\ Done
    /\ \E k \in 1..(Len(Source) - 1) : IsOpener(Source[k]) /\ IsOpener(Source[k + 1])
    /\ Len(sections) >= 1
    /\ sections # CatchAllResult
    /\ \A k \in 1..Len(sections) : sections[k].content # <<>>

(* ------------------------------------------------------------------ *)
(* C9  Append-only output                                             *)
(* ------------------------------------------------------------------ *)

IsPrefix(a, b) == Len(a) <= Len(b) /\ SubSeq(b, 1, Len(a)) = a

RECURSIVE IsSubsequence(_, _)
IsSubsequence(a, b) ==
    IF a = <<>> THEN TRUE
    ELSE IF b = <<>> THEN FALSE
    ELSE IF Head(a) = Head(b) THEN IsSubsequence(Tail(a), Tail(b))
    ELSE IsSubsequence(a, Tail(b))

\* the content lines of a list of sections, in output order
RECURSIVE ContentLines(_)
ContentLines(secs) ==
    IF secs = <<>> THEN <<>>
    ELSE TrimmedLines(Head(secs).content) \o ContentLines(Tail(secs))

\* the content of the sections, read in output order, is in source order
InSourceOrder(secs) == IsSubsequence(ContentLines(secs), Source)

\* C9: every step leaves the sections appended so far unchanged and in
\* place, only adding at the end, and the output order is source order.
C9_AppendOnly ==
    [][ /\ IsPrefix(sections, sections')
        /\ IsPrefix(fb_sections, fb_sections')
        /\ sections' # sections => InSourceOrder(sections')
        /\ fb_sections' # fb_sections => InSourceOrder(fb_sections') ]_vars

\* a second section has been appended after a first one
C9_Witness ==
    /\ Done
    /\ fb_sections = <<>>
    /\ Len(sections) = 2
    /\ sections[1].content # sections[2].content

(* ------------------------------------------------------------------ *)
(* C10  Section type normalizer                                       *)
(* ------------------------------------------------------------------ *)

\* src is one section marker followed by text lines only
SingleSectionShape(src) ==
    /\ Len(src) >= 2
    /\ IsOpener(src[1])
    /\ \A k \in 2..Len(src) : IsText(src[k])

\* C10: the type given to a section is the reference table's entry for
\* its marker token, and the lower-cased token when the table has none.
C10_NormalizerTable ==
    Done =>
      \A src \in {Source} :
        SingleSectionShape(src) =>
          /\ Len(sections) = 1
          /\ sections[1].type = ReferenceType(MarkerOf(src[1]))

\* a ##Segment_3## section has been emitted as main_content_3
C10_Witness ==
    /\ Done
    /\ SingleSectionShape(Source)
    /\ MarkerOf(Source[1]) = <<"SEGMENT", "_", "3">>
    /\ sections[1].type = <<"main", "_", "content", "_", "3">>


(* ------------------------------------------------------------------ *)
(* C11  Idempotence of normalization                                  *)
(* ------------------------------------------------------------------ *)

\* C11: normalizing a normalized type changes nothing: for the marker
\* token of the open section normalize(normalize(x)) = normalize(x), and
\* every type an emitted section carries is normalized to itself.
C11_Idempotence ==
    /\ current_type # <<>> =>
         mapped_type(mapped_type(current_type)) = mapped_type(current_type)
    /\ \A k \in 1..Len(sections) :
         mapped_type(sections[k].type) = sections[k].type

\* a marker spelt as the canonical type main_content_3 has been parsed
\* and its section carries that same type
C11_Witness ==
    /\ Done
    /\ current_type = <<"MAIN", "_", "CONTENT", "_", "3">>
    /\ Len(sections) = 1
    /\ sections[1].type = <<"main", "_", "content", "_", "3">>


(* ------------------------------------------------------------------ *)
(* C12  Parsing never fails                                           *)
(* ------------------------------------------------------------------ *)

\* C12: every call ends by returning a sequence of sections; an input
\* with any text in it comes back as at least one section, absorbed by
\* the primary parse, then the fallback parse, then the catch-all.
C12_NeverFails ==
    <>(Done /\ (Strip(script_content) # <<>> => Len(sections) >= 1))

\* an input with a marker line went through all three tiers: the primary
\* loop saved nothing, the fallback loop opened a section and saved
\* nothing, and the catch-all section was returned
C12_Witness ==
    /\ Done
    /\ MarkerPositions(Source) # {}
    /\ fb_current_type # <<>>
    /\ fb_current_content = <<>>
    /\ sections = CatchAllResult


(* ------------------------------------------------------------------ *)
(* C13  Tier ordering                                                 *)
(* ------------------------------------------------------------------ *)

\* C13: the fallback parser starts only from an empty primary result;
\* a primary result with a section in it is returned as it is, the
\* fallback parser untouched; the result of a call that ran the fallback
\* parser is the fallback parser's; and an input without a marker line
\* always takes the fallback parser.
C13_TierOrdering ==
    [][ /\ (pc = "primary" /\ pc' = "fallback") => sections' = <<>>
        /\ (pc = "primary" /\ pc' = "done") =>
              /\ sections' # <<>>
              /\ IsPrefix(sections, sections')
              /\ fb_sections' = <<>> /\ fb_current_type' = <<>>
              /\ fb_current_content' = <<>>
        /\ (pc = "fallback" /\ pc' = "done") => sections' = fb_sections'
        /\ (pc = "primary" /\ lines = <<>> /\ MarkerPositions(Source) = {}) =>
              pc' = "fallback" /\ sections' = <<>>
      ]_vars

\* a primary result was returned for a text that has a line the fallback
\* parser would have taken as a header
C13_Witness ==
    /\ Done
    /\ Len(sections) = 1
    /\ fb_sections = <<>>
    /\ fb_current_type = <<>>
    /\ \E k \in 1..Len(Source) :
         ~IsMarkerLine(Source[k]) /\ FirstMatch(Source[k]) # 0


(* ------------------------------------------------------------------ *)
(* C16  Section close on marker                                       *)
(* ------------------------------------------------------------------ *)

\* C16: a marker line whose token is neither DURATION nor B_ROLL, read
\* while the open section has content, appends that section to the
\* output and opens a section with the new token, also when the token
\* is the one of the open section.
C16_SectionCloseOnMarker ==
    [][ ( /\ pc = "primary" /\ lines # <<>>
          /\ IsMarkerLine(line)
          /\ MarkerOf(line) \notin {DURATION, B_ROLL}
          /\ current_type # <<>>
          /\ current_content # <<>> )
        => /\ sections' = Append(sections,
                                 BuildSection(current_type, current_content,
                                              current_duration, current_b_roll))
           /\ current_type' = MarkerOf(line)
           /\ current_content' = <<>>
      ]_vars

(* ------------------------------------------------------------------ *)
(* C17  No leak between sections                                      *)
(* ------------------------------------------------------------------ *)

\* C17: whenever a marker line opens a new section, the duration and the
\* visuals accumulators are empty, also when the section before it had
\* no content and was not emitted.
C17_NoLeak ==
    [][ ( /\ pc = "primary" /\ lines # <<>>
          /\ IsOpener(line)
          /\ MarkerOf(line) # current_type )
        => /\ current_type' = MarkerOf(line)
           /\ current_duration' = <<>>
           /\ current_b_roll' = <<>>
      ]_vars

(* ------------------------------------------------------------------ *)
(* C18  Type kept across duration capture                             *)
(* ------------------------------------------------------------------ *)

\* src is: a section marker, then plain lines only, one of which starts
\* with the word duration and at least one of which does not
DurationInSectionShape(src) ==
    /\ Len(src) >= 3
    /\ IsOpener(src[1])
    /\ \A k \in 2..Len(src) : IsPlain(src[k])
    /\ \E k \in 2..Len(src) : LooksLikeDuration(src[k])
    /\ \E k \in 2..Len(src) : IsText(src[k])

\* C18: capturing a duration line leaves the open section as it is: the
\* section is emitted with the normalized type of its opening marker and
\* holds the lines after the duration line.
C18_TypeKept ==
    /\ [][ (pc = "primary" /\ current_duration' # current_duration
              /\ current_duration' # <<>>)
           => current_type' = current_type ]_vars
    /\ [](Done =>
           \A src \in {Source} :
             DurationInSectionShape(src) =>
               /\ Len(sections) = 1
               /\ sections[1].type = mapped_type(MarkerOf(src[1])))


(* ------------------------------------------------------------------ *)
(* C19  No content line is lost or duplicated                         *)
(* ------------------------------------------------------------------ *)

\* the non-blank lines the primary loop has read so far, trimmed
ReadSoFar ==
    LET all == Split(script_content, NL)
        n   == Len(all) - Len(lines)
        NonBlank(l) == l # <<>>
    IN  SelectSeq([k \in 1..n |-> Strip(all[k])], NonBlank)

\* a section-opening marker has been read
OpenerRead == \E rd \in {ReadSoFar} : \E k \in 1..Len(rd) : IsOpener(rd[k])

\* the step appends to the output a section whose content is exactly the
\* accumulated content lines, joined in order
EmitsContent ==
    /\ Len(sections') = Len(sections) + 1
    /\ IsPrefix(sections, sections')
    /\ sections'[Len(sections')].content = Join(current_content, NL)

\* C19: a plain line read after a section-opening marker, outside visuals
\* mode and not captured as a duration, is added once to the content of
\* the open section; accumulated content leaves the buffer only into an
\* emitted section, whole and in order, and is emitted at the end of input.
C19_NoContentLost ==
    [][ pc = "primary" =>
          /\ ( /\ lines # <<>> /\ line # <<>> /\ IsPlain(line)
               /\ OpenerRead
               /\ ~parsing_b_roll
               /\ current_duration' = current_duration )
             => current_content' = Append(current_content, line)
          /\ ( current_content' # current_content
               /\ current_content' # Append(current_content, line) )
             => current_content' = <<>> /\ EmitsContent
          /\ ( lines = <<>> /\ current_content # <<>> ) => EmitsContent
      ]_vars


(* ------------------------------------------------------------------ *)
(* C20  Duration heuristic                                            *)
(* ------------------------------------------------------------------ *)

\* index in rd of the last section-opening marker, 0 when there is none
LastOpener(rd) ==
    LET op == {k \in 1..Len(rd) : IsOpener(rd[k])}
    IN  IF op = {} THEN 0 ELSE SetMax(op)

\* a section is open and only plain lines were read since its marker
\* (no ##DURATION## marker, no visuals mode)
PlainSinceOpener(rd) ==
    /\ LastOpener(rd) > 0
    /\ \A k \in (LastOpener(rd) + 1)..Len(rd) : IsPlain(rd[k])

\* a line of the open section was already captured as its duration: one
\* of the plain lines read since its marker starts with the word duration
DurationSinceOpener(rd) ==
    \E k \in (LastOpener(rd) + 1)..Len(rd) : LooksLikeDuration(rd[k])

\* C20: outside visuals mode a plain line starting with the word duration
\* is captured as the duration, and kept out of the content, exactly when
\* a section is open and no duration was captured for it yet; with a
\* duration already captured for the section, or with no section open,
\* it is not captured.
C20_DurationHeuristic ==
    [][ ( /\ pc = "primary" /\ lines # <<>>
          /\ IsPlain(line) /\ LooksLikeDuration(line)
          /\ ~parsing_b_roll )
        => \A rd \in {ReadSoFar} :
             /\ (PlainSinceOpener(rd) /\ ~DurationSinceOpener(rd)) =>
                  /\ current_duration' = line
                  /\ current_content' = current_content
             /\ (PlainSinceOpener(rd) /\ DurationSinceOpener(rd)) =>
                  /\ current_duration' = current_duration
                  /\ current_content' = Append(current_content, line)
             /\ LastOpener(rd) = 0 =>
                  /\ current_duration' = current_duration
                  /\ current_content' = current_content
      ]_vars


(* ------------------------------------------------------------------ *)
(* C15  Voice-over input                                              *)
(* ------------------------------------------------------------------ *)

BlankLine == <<NL, NL>>

\* the contents of the sections of the script, in section order
ContentsOf(script) == [k \in 1..Len(script.sections) |-> script.sections[k].content]

\* the parts in order, one blank line between each two neighbours
RECURSIVE Separated(_)
Separated(parts) ==
    IF parts = <<>> THEN <<>>
    ELSE IF Len(parts) = 1 THEN parts[1]
    ELSE parts[1] \o BlankLine \o Separated(Tail(parts))

\* the parts in order, a blank line after each of them
RECURSIVE Terminated(_)
Terminated(parts) ==
    IF parts = <<>> THEN <<>>
    ELSE parts[1] \o BlankLine \o Terminated(Tail(parts))

\* a voice-over text has been submitted for a script that has sections
VoiceSubmitted == vo_pc = "done" /\ vo_script.has_sections

\* C15 as stated: the submitted text is the contents of the sections,
\* each once and in section order, with a blank line between consecutive
\* sections.
C15_VoiceOverInput ==
    VoiceSubmitted => submitted = Separated(ContentsOf(vo_script))

\* C15 as the code has it: the submitted text is the contents of the
\* sections, each once and in section order, each followed by a blank
\* line, the last one too.
C15_VoiceOverInputTerminated ==
    VoiceSubmitted => submitted = Terminated(ContentsOf(vo_script))

\* the text of a script with three sections, not all alike and one of
\* them of two lines, has been submitted
C15_Witness ==
    /\ VoiceSubmitted
    /\ Len(vo_script.sections) = 3
    /\ vo_script.sections[1] # vo_script.sections[2]
    /\ \E k \in 1..3 : NL \in { vo_script.sections[k].content[i] :
                                  i \in 1..Len(vo_script.sections[k].content) }
    /\ submitted # <<>>


(* ------------------------------------------------------------------ *)
(* C14  Lost update on storage                                        *)
(* ------------------------------------------------------------------ *)

\* the process is at the save of a read-modify-write of the scripts,
\* and documents is what it built from the copy it read
SavesScripts(w, documents) ==
    \/ /\ worker[w].pc = "scripts_save"
       /\ documents = Append(worker[w].scripts, NewScript(worker[w].job))
    \/ /\ worker[w].op = "update_script" /\ worker[w].pc = "save"
       /\ Len(documents) = Len(worker[w].scripts)
       /\ \A k \in 1..Len(documents) :
            /\ documents[k].id = worker[w].scripts[k].id
            /\ documents[k].id # worker[w].script_id =>
                 documents[k] = worker[w].scripts[k]

\* the same for the generation jobs
SavesGenerations(w, documents) ==
    \/ /\ worker[w].op = "generate_script" /\ worker[w].pc = "save"
       /\ documents = Append(worker[w].generations, NewGeneration(worker[w].job))
    \/ /\ worker[w].pc = "status_save"
       /\ Len(documents) = Len(worker[w].generations)
       /\ \A k \in 1..Len(documents) :
            /\ documents[k].id = worker[w].generations[k].id
            /\ documents[k].id # worker[w].job =>
                 documents[k] = worker[w].generations[k]

\* C14: every save replaces the whole stored list by the list the writer
\* built from its own earlier read (last writer wins), whatever was
\* stored in between; so with two interleaved read-modify-write
\* operations the change of the earlier writer can be lost.
C14_LastWriterWins ==
    [][ /\ stored_scripts' # stored_scripts =>
             \E w \in Workers : SavesScripts(w, stored_scripts')
        /\ stored_generations' # stored_generations =>
             \E w \in Workers : SavesGenerations(w, stored_generations')
      ]_vars

\* a lost update: a job is stored as completed, so its script was saved,
\* and the stored scripts hold no script of that job: an update_script
\* call that had read the scripts before the save has overwritten them
C14_Witness ==
    \E k \in 1..Len(stored_generations) :
        /\ stored_generations[k].status = "completed"
        /\ \A j \in 1..Len(stored_scripts) :
             stored_scripts[j].generation_id # stored_generations[k].id
        /\ \E j \in 1..Len(stored_scripts) : stored_scripts[j].title = "t1"


(* ------------------------------------------------------------------ *)
(* C21  Visuals mode                                                  *)
(* ------------------------------------------------------------------ *)

\* the lines read so far end in visuals mode: the last marker line among
\* them is a ##B_ROLL## marker
InVisuals(rd) ==
    LET mp == MarkerPositions(rd)
    IN  mp # {} /\ MarkerOf(rd[SetMax(mp)]) = B_ROLL

\* the line without its leading dashes and the blanks around the rest
RECURSIVE Undashed(_)
Undashed(l) ==
    IF l # <<>> /\ Head(l) = "-" THEN Undashed(Tail(l)) ELSE Strip(l)

\* C21: from a ##B_ROLL## marker until the next marker line every
\* non-blank line is appended to the visual suggestions, its leading dash
\* removed when it has one, and is neither added to the content of a
\* section nor taken as a duration; any other marker line that follows,
\* ##DURATION## included, ends visuals mode, and lines read outside
\* visuals mode are not appended to the visual suggestions.
C21_VisualsMode ==
    [][ (pc = "primary" /\ lines # <<>> /\ line # <<>>) =>
          \A rd \in {ReadSoFar} :
            /\ parsing_b_roll = InVisuals(rd)
            /\ (InVisuals(rd) /\ IsPlain(line)) =>
                  /\ current_b_roll' =
                       Append(current_b_roll,
                              IF Head(line) = "-" THEN Undashed(line) ELSE line)
                  /\ current_content' = current_content
                  /\ current_duration' = current_duration
                  /\ sections' = sections
                  /\ parsing_b_roll'
            /\ (~InVisuals(rd) /\ IsPlain(line)) =>
                  current_b_roll' = current_b_roll
            /\ IsMarkerLine(line) => parsing_b_roll' = (MarkerOf(line) = B_ROLL)
      ]_vars

\* in visuals mode a line with dashes and a line that starts with the
\* word duration have been taken as visual suggestions, and a
\* ##DURATION## marker has then ended visuals mode
C21_Witness ==
    /\ pc = "primary"
    /\ ~parsing_b_roll
    /\ current_b_roll = << <<"Shot">>, LineDurText >>
    /\ current_duration = <<>>
    /\ \E rd \in {ReadSoFar} : rd # <<>> /\ rd[Len(rd)] = LineDuration


(* ------------------------------------------------------------------ *)
(* C22  Fallback content assignment                                   *)
(* ------------------------------------------------------------------ *)

\* the call went through the fallback parser and has returned
FallbackDone == Done /\ fb_sections # <<>>

\* positions of the lines that match a cue pattern
CuePositions(src) == {k \in 1..Len(src) : FirstMatch(src[k]) # 0}

\* the contents the cue lines of src collect: for each cue line, in
\* order, the lines after it up to the next cue line, when there are any
RECURSIVE CueContents(_, _, _)
CueContents(src, cp, from) ==
    IF {c \in cp : c >= from} = {} THEN <<>>
    ELSE LET c    == SetMin({c \in cp : c >= from})
             last == LastLineOf(src, cp, c)
         IN  (IF last > c THEN << Join(SubSeq(src, c + 1, last), NL) >> ELSE <<>>)
                \o CueContents(src, cp, c + 1)

\* C22: in the fallback parser the lines before the first cue line go
\* to no section, every later line that matches no pattern is appended in
\* order to the content of the section the most recent cue line opened,
\* and a section is emitted only when it received at least one line.
C22_FallbackContent ==
    /\ [][ (pc = "fallback" /\ lines # <<>> /\ line # <<>> /\ FirstMatch(line) = 0) =>
              /\ fb_sections' = fb_sections
              /\ fb_current_type' = fb_current_type
              /\ fb_current_content' =
                    IF fb_current_type = <<>> THEN <<>>
                    ELSE Append(fb_current_content, line) ]_vars
    /\ [](FallbackDone =>
            \A src \in {Source} : \A want \in {CueContents(src, CuePositions(src), 1)} :
              IF want = <<>>
              THEN sections = CatchAllResult
              ELSE [k \in 1..Len(sections) |-> sections[k].content] = want)

\* the fallback parser dropped a line before the first cue, emitted
\* nothing for a cue without lines and one section for the lines of
\* another cue
C22_Witness ==
    /\ FallbackDone
    /\ \E src \in {Source} : \E cp \in {CuePositions(src)} :
         /\ cp # {} /\ 1 \notin cp
         /\ \E c \in cp : c + 1 \in cp
    /\ Len(sections) = 1
    /\ sections # CatchAllResult


(* ------------------------------------------------------------------ *)
(* C23  Fallback cue typing                                           *)
(* ------------------------------------------------------------------ *)

\* the cue words in their declared order
DeclaredCues == <<"hook", "intro", "main", "segment", "outro", "conclusion", "cta">>

\* the cue word occurs in the lower-cased word
Occurs(cue, word) ==
    \/ word = cue
    \/ cue = "intro" /\ word = "introduction"
    \/ cue = "main" /\ word = "domain"

\* the cue word occurs somewhere in the line, in any case
Mentions(l, cue) == \E k \in 1..Len(l) : Occurs(cue, LowerAtom(l[k]))

\* the section type a cue word stands for
CueType(cue) ==
    CASE cue = "hook" -> <<"hook">>
      [] cue = "intro" -> <<"intro">>
      [] cue \in {"main", "segment"} -> <<"main", "_", "content">>
      [] cue \in {"outro", "conclusion"} -> <<"outro">>
      [] cue = "cta" -> <<"call", "_", "to", "_", "action">>

FallbackTypes ==
    { <<"hook">>, <<"intro">>, <<"main", "_", "content">>, <<"outro">>,
      <<"call", "_", "to", "_", "action">> }

\* C23: a line is a cue when any pattern matches anywhere in it, in any
\* case; it opens a section whose type is that of the first matching
\* pattern in the order hook, intro, main, segment, outro, conclusion,
\* cta; main and segment give main_content whatever number follows; the
\* types of the sections of cues are within hook, intro, main_content,
\* outro, call_to_action.
C23_FallbackCueTyping ==
    /\ [][ (pc = "fallback" /\ lines # <<>> /\ line # <<>>) =>
              \A hits \in {{p \in 1..Len(DeclaredCues) : Mentions(line, DeclaredCues[p])}} :
                IF hits = {}
                THEN fb_current_type' = fb_current_type
                ELSE /\ fb_current_type' = CueType(DeclaredCues[SetMin(hits)])
                     /\ fb_current_content' = <<>> ]_vars
    /\ [](fb_current_type # <<>> => fb_current_type \in FallbackTypes)
    /\ [](\A k \in 1..Len(fb_sections) :
            fb_sections[k].type \in FallbackTypes \cup {FullScript})
    /\ []((FallbackDone /\ sections # CatchAllResult) =>
            \A k \in 1..Len(sections) : sections[k].type \in FallbackTypes)

\* a header with a segment cue and a number before an intro cue has
\* given an intro section
C23_Witness ==
    /\ FallbackDone
    /\ Source # <<>>
    /\ Source[1] = <<"segment", "_", "1", " ", "intro">>
    /\ Len(sections) = 1
    /\ sections[1].type = <<"intro">>
    /\ sections[1].content = <<"Hi">>


(* ------------------------------------------------------------------ *)
(* C24  Blank lines carry no information                              *)
(* ------------------------------------------------------------------ *)

\* no line of the content is empty or whitespace only
NoEmptyLine(content) ==
    \A all \in {Split(content, NL)} : \A k \in 1..Len(all) : Strip(all[k]) # <<>>

\* the catch-all result of the first call
FirstCatchAll ==
    << [ type |-> FullScript, content |-> Strip(first_run.content),
         duration |-> <<>>, b_roll |-> <<>> ] >>

\* C24: no content of a section the primary or the fallback parser made
\* holds an empty line, and when the result for a text is not the
\* catch-all section, the same text with a blank or whitespace-only line
\* put in anywhere gives the same sections.
C24_BlankLines ==
    /\ \A secs \in {sections, fb_sections} :
         secs # CatchAllResult =>
           \A k \in 1..Len(secs) : NoEmptyLine(secs[k].content)
    /\ (Done /\ first_run.done /\ first_run.sections # FirstCatchAll) =>
         sections = first_run.sections

\* a text with a whitespace-only line put in between two of its lines
\* gave the sections of the primary parser a second time
C24_Witness ==
    /\ Done /\ first_run.done
    /\ fb_sections = <<>>
    /\ Len(sections) >= 1
    /\ sections[1].content # <<>>
    /\ script_content # first_run.content
    /\ \E all \in {Split(script_content, NL)} :
         \E k \in 2..(Len(all) - 1) : all[k] = <<" ">>


(* ------------------------------------------------------------------ *)
(* C25  update_script frame                                           *)
(* ------------------------------------------------------------------ *)

\* the script as the request leaves it: the fields the request gives
\* and modified_at are set, every other field is as before
Updated(script, request) ==
    [ id            |-> script.id,
      story_id      |-> script.story_id,
      generation_id |-> script.generation_id,
      title         |-> IF request.title # None THEN request.title ELSE script.title,
      sections      |-> IF request.sections.given THEN request.sections.list
                        ELSE script.sections,
      approved      |-> IF request.approved # None THEN request.approved
                        ELSE script.approved,
      modified_at   |-> "now" ]

\* C25: an update_script call changes, in the stored scripts, only the
\* fields its request gives (and modified_at) of the one script with the
\* script_id and story_id of the call; every other field of that script
\* and every other stored script are as they were before; a call that
\* finds no such script goes no further and changes nothing.
C25_UpdateFrame ==
    [][ /\ \A w \in Workers :
             (worker[w].op = "update_script" /\ stored_scripts' # stored_scripts) =>
               \A i \in {ScriptIndex(stored_scripts, worker[w].script_id)} :
                 /\ i # 0
                 /\ Len(stored_scripts') = Len(stored_scripts)
                 /\ \A k \in 1..Len(stored_scripts) :
                      stored_scripts'[k] =
                        IF k = i THEN Updated(stored_scripts[k], worker[w].request)
                        ELSE stored_scripts[k]
        /\ updates' # updates =>
             /\ stored_scripts' = stored_scripts
             /\ \A w \in Workers :
                  worker'[w] # worker[w] =>
                    ScriptIndex(stored_scripts, worker'[w].script_id) # 0
      ]_vars


(* ------------------------------------------------------------------ *)
(* C26  Stored records are never lost                                 *)
(* ------------------------------------------------------------------ *)

\* the ids of the stored documents, in stored order
IdsOf(documents) == [k \in 1..Len(documents) |-> documents[k].id]

\* the list after the step holds the documents of the list before it,
\* in place, and at most one more at its end
GrowsInPlace(before, after) ==
    /\ IsPrefix(IdsOf(before), IdsOf(after))
    /\ Len(after) <= Len(before) + 1

\* C26: whatever requests, background runs, status updates and script
\* updates take place, a storage read that fails included, every job and
\* every script stored before a step is stored after it under the same
\* id: the stored lists only grow or have an entry updated in place.
C26_NoRecordLost ==
    [][ /\ GrowsInPlace(stored_generations, stored_generations')
        /\ GrowsInPlace(stored_scripts, stored_scripts') ]_vars


(* ------------------------------------------------------------------ *)
(* C27  Every job eventually finishes                                 *)
(* ------------------------------------------------------------------ *)

\* the job is stored with one of the statuses
StoredAs(id, statuses) ==
    \E k \in 1..Len(stored_generations) :
        stored_generations[k].id = id /\ stored_generations[k].status \in statuses

\* C27: a job that generate_script has stored as pending, its background
\* task running, is eventually stored as completed or failed, also when
\* the model call, the parse or a storage operation fails on the way.
C27_JobFinishes ==
    \A id \in 1..MaxJobs :
        StoredAs(id, {"pending"}) ~> StoredAs(id, {"completed", "failed"})


(* ------------------------------------------------------------------ *)
(* C28  At most one active job per story                              *)
(* ------------------------------------------------------------------ *)

\* positions of the stored jobs of the story that are pending or in progress
ActiveJobs ==
    {k \in 1..Len(stored_generations) :
        /\ stored_generations[k].story_id = Story
        /\ stored_generations[k].status \in {"pending", "in-progress"}}

\* at any time at most one stored job of the story is active
C28_AtMostOneStored == Cardinality(ActiveJobs) <= 1

\* a generate_script request that arrives while a job of the story is
\* active goes no further: it stores no job and adds no background task
C28_RequestReturnsActive ==
    [][ (requests' # requests /\ ActiveJobs # {}) =>
          /\ worker' = worker
          /\ stored_generations' = stored_generations
          /\ tasks' = tasks ]_vars

\* C28: for the user and the story at most one job is pending or in
\* progress at any time, and a generate_script request that arrives
\* while there is one returns it, stores no new job and adds no new
\* background task.
C28_OneActiveJob ==
    /\ []C28_AtMostOneStored
    /\ C28_RequestReturnsActive


(* ------------------------------------------------------------------ *)
(* C29  Job status lifecycle                                          *)
(* ------------------------------------------------------------------ *)

\* the moves of a status the lifecycle allows
Lifecycle ==
    { <<"pending", "in-progress">>, <<"in-progress", "completed">>,
      <<"pending", "failed">>, <<"in-progress", "failed">> }

\* the stored job with the id in the list
JobOf(generations, id) ==
    generations[CHOOSE k \in 1..Len(generations) : generations[k].id = id]

\* C29: the stored status of a job only moves pending -> in-progress ->
\* completed, or from pending or in-progress to failed; completed and
\* failed are never left; completed_at is set only on a completed job.
C29_StatusLifecycle ==
    /\ [][ \A id \in 1..MaxJobs :
              ( /\ \E k \in 1..Len(stored_generations) : stored_generations[k].id = id
                /\ \E k \in 1..Len(stored_generations') : stored_generations'[k].id = id ) =>
                \A was \in {JobOf(stored_generations, id).status},
                   is \in {JobOf(stored_generations', id).status} :
                  was = is \/ <<was, is>> \in Lifecycle ]_vars
    /\ [](\A k \in 1..Len(stored_generations) :
            stored_generations[k].completed_at # None =>
              stored_generations[k].status = "completed")


(* ------------------------------------------------------------------ *)
(* C30  Completed implies persisted                                   *)
(* ------------------------------------------------------------------ *)

\* positions of the stored scripts of the story made by the job
ScriptsOfJob(id) ==
    {j \in 1..Len(stored_scripts) :
        stored_scripts[j].generation_id = id /\ stored_scripts[j].story_id = Story}

\* every completed job has a stored script
C30_CompletedHasScript ==
    \A k \in 1..Len(stored_generations) :
        stored_generations[k].status = "completed" =>
          ScriptsOfJob(stored_generations[k].id) # {}

\* no job has two stored scripts, and a failed job has none
C30_AtMostOneScript ==
    /\ \A id \in 1..MaxJobs : Cardinality(ScriptsOfJob(id)) <= 1
    /\ \A k \in 1..Len(stored_generations) :
         stored_generations[k].status = "failed" =>
           ScriptsOfJob(stored_generations[k].id) = {}

\* C30: whenever a job is stored as completed the stored scripts hold a
\* script of the same story whose generation_id is the id of the job;
\* a job gives at most one stored script, and a job that failed has none.
C30_CompletedPersisted ==
    /\ C30_CompletedHasScript
    /\ C30_AtMostOneScript

====
